---- MODULE Spec2Model ----
(***************************************************************************)
(* The coordination pipeline of the MAS coordinator (src/task/agent.py,    *)
(* src/task/app.py): one chat-completion request handled by                *)
(* MASCoordinatorApplication.chat_completion and                           *)
(* MASCoordinator.handle_request.                                          *)
(*                                                                         *)
(* Text is a sequence of characters (one-character strings), so that       *)
(* concatenation, f-string formatting and "appears before" are sequence    *)
(* operations; a fixed piece of text (a prompt, a marker of the augmented  *)
(* prompt) is written as one long character.  Python's None is the value   *)
(* None below; a pydantic object is a record with every field present      *)
(* (None where unset); a dict is a record whose domain is the keys the     *)
(* dict holds.                                                             *)
(***************************************************************************)
EXTENDS Integers, Sequences, FiniteSets, TLC

(* ---------------------------------------------------------------- bounds *)
\* longest conversation of an inbound request
MaxMsgs == 2
\* most chunks the synthesis stream delivers before it ends or raises
MaxChunks == 2

(* ---------------------------------------------------------------- values *)
None == <<"<NoneType>">>
Null == [null |-> TRUE]

\* Role.SYSTEM, Role.USER, Role.ASSISTANT
SYSTEM == "system"
USER == "user"
ASSISTANT == "assistant"
Roles == {SYSTEM, USER, ASSISTANT}

\* task.prompts
COORDINATION_REQUEST_SYSTEM_PROMPT == <<"COORDINATION_REQUEST_SYSTEM_PROMPT">>
FINAL_RESPONSE_SYSTEM_PROMPT == <<"FINAL_RESPONSE_SYSTEM_PROMPT">>

\* task.models.AgentName
GPA == "GPA"
UMS == "UMS"
AgentName == {GPA, UMS}

\* app.py configuration handed to MASCoordinator.__init__
DIAL_ENDPOINT == "http://localhost:8080"
DEPLOYMENT_NAME == "gpt-4o"
UMS_AGENT_ENDPOINT == "http://localhost:8042"

\* str(x), as applied by StrictStr(...) and by f-string formatting
Str(x) == IF x = None THEN <<"None">> ELSE x

\* truth value of an optional pydantic object (custom_content): None is falsy
TruthyObject(x) == x # None

\* truth value of an optional str: None and "" are falsy
TruthyStr(x) == x # None /\ x # <<>>

(* ---------------------------------------------------------------- inputs *)
CustomContents == {None, <<"id=42">>}

\* aidial_sdk Message objects of the inbound conversation
RequestMessages ==
    [role : Roles, content : {<<"Q">>}, custom_content : CustomContents]
      \cup {[role |-> ASSISTANT, content |-> None, custom_content |-> None],
            [role |-> USER, content |-> None, custom_content |-> <<"id=42">>]}

SeqsUpTo(S, n) == UNION {[1..k -> S] : k \in 0..n}

Conversations == SeqsUpTo(RequestMessages, MaxMsgs)

\* message content of the decision completion: text that json.loads rejects,
\* or the JSON object it parses to
DecisionDicts ==
    [agent_name : AgentName \cup {"OTHER"}, additional_instructions : {<<"I">>}]
      \cup [agent_name : AgentName \cup {"OTHER"}]
      \cup [additional_instructions : {<<"I">>}]
      \cup {[unrelated |-> <<"x">>]}

DecisionContents ==
    {[json |-> FALSE]} \cup [json : {TRUE}, object : DecisionDicts]

\* messages an agent gateway returns
AgentMessages ==
    [role : {ASSISTANT}, content : {<<"A">>}, custom_content : CustomContents]

\* chunks of the synthesis stream: choices is empty or holds one choice whose
\* delta is absent (None) or carries content None, "" or a fragment
Deltas ==
    {[isNone |-> TRUE, content |-> None]}
      \cup [isNone : {FALSE}, content : {None, <<>>, <<"H", "e", "l">>, <<"l", "o">>}]

Chunks == {[choices |-> <<>>]} \cup {[choices |-> <<[delta |-> d]>>] : d \in Deltas}

(* ----------------------------------------------------------------- state *)
VARIABLES
    pc,                    \* phase of the request
    config,                \* MASCoordinator's endpoint, deployment_name, ums_agent_endpoint
    request,               \* request.messages
    stages,                \* progress segments of the choice, in creation order
    llmCalls,              \* client.chat.completions.create calls issued, in order
    agentCalls,            \* agent.response calls issued, in order
    coordination_request,  \* prepared_request
    agent_message,         \* message returned by the gateway
    decision_content,      \* response.choices[0].message.content of the decision call
    downstream,            \* what each downstream call and the stage operations did so far
    received,              \* chunks received from the synthesis stream, in order
    output,                \* fragments appended to the choice, in order
    content,               \* the accumulator of __final_response
    result,                \* the Message handle_request returned
    error,                 \* the exception handle_request raised
    raised,                \* the exception chat_completion raised to the hosting layer
    current,               \* which chat_completion coroutine the event loop is running
    suspended              \* the locals of the other chat_completion coroutine, if any

vars == <<pc, config, request, stages, llmCalls, agentCalls, coordination_request,
          agent_message, decision_content, downstream, received, output, content,
          result, error, raised, current, suspended>>

\* what no statement of handle_request assigns: the coordinator's fields and
\* the other coroutine's locals
untouched == <<config, current, suspended>>

NoError == "none"

(* ----------------------------------------------- __prepare_messages *)
\* deepcopy(m)
deepcopy(m) == [f \in DOMAIN m |-> m[f]]

\* m.dict(exclude_none=True)
dict_exclude_none(m) ==
    [f \in {g \in DOMAIN m : g = "role" \/ m[g] # None} |-> m[f]]

\* prepare_message with every message emitted through dict(exclude_none=True)
prepare_message_keep_all(m) == dict_exclude_none(m)

prepare_message(m) ==
    IF TruthyObject(m.custom_content) /\ m.role = USER
    THEN [role |-> USER, content |-> Str(deepcopy(m).content)]
    ELSE dict_exclude_none(m)

\* prepare_messages without the system prompt entry
prepare_messages_no_system(msgs, system_prompt) ==
    [i \in 1..Len(msgs) |-> prepare_message(msgs[i])]

prepare_messages(msgs, system_prompt) ==
    <<[content |-> system_prompt, role |-> SYSTEM]>>
      \o [i \in 1..Len(msgs) |-> prepare_message(msgs[i])]

(* ------------------------------------------------- task.stage_util *)
\* StageProcessor.open_stage(choice, name): a new segment, opened
open_stage(stgs, name) ==
    Append(stgs, [name |-> name, status |-> "open", content |-> <<>>])

\* stage.append_content(text)
append_content(stgs, i, text) == [stgs EXCEPT ![i].content = @ \o text]

\* StageProcessor.close_stage_safely(stage)
close_stage_safely(stgs, i) == [stgs EXCEPT ![i].status = "closed"]

(* --------------------------------------------------- task.models *)
\* CoordinationRequest.model_validate(d) accepts d
model_validate_ok(d) ==
    /\ "agent_name" \in DOMAIN d
    /\ d.agent_name \in AgentName
    /\ "additional_instructions" \in DOMAIN d

\* the CoordinationRequest that model_validate(d) builds
model_validate(d) ==
    [agent_name |-> d.agent_name, additional_instructions |-> d.additional_instructions]

\* prepared_request.model_dump_json(indent=2)
model_dump_json(cr) ==
    <<"{agent_name:", cr.agent_name, "additional_instructions:">>
      \o cr.additional_instructions \o <<"}">>

\* the text handle_request appends to the "Coordination Request" stage (the
\* code fence is written ''' here)
decision_stage_content(cr) ==
    <<"'''json\n\r">> \o model_dump_json(cr) \o <<"\n\r'''\n\r">>

(* ------------------------------------ __prepare_coordination_request *)
\* the completion request of the decision call
decision_call(cfg, msgs) ==
    [deployment_name |-> cfg.deployment_name,
     messages |-> prepare_messages(msgs, COORDINATION_REQUEST_SYSTEM_PROMPT),
     stream |-> FALSE,
     response_format |-> "json_schema"]

\* parse_decision with a default agent substituted when parsing or validation fails
parse_decision_default(c) ==
    IF c.json /\ model_validate_ok(c.object)
    THEN [raises |-> FALSE, value |-> model_validate(c.object)]
    ELSE [raises |-> FALSE,
          value |-> [agent_name |-> GPA, additional_instructions |-> <<>>]]

\* json.loads(content) followed by CoordinationRequest.model_validate: the
\* decision object, or the exception raised
parse_decision(c) ==
    IF ~c.json THEN [raises |-> TRUE, exception |-> "JSONDecodeError"]
    ELSE IF ~model_validate_ok(c.object)
         THEN [raises |-> TRUE, exception |-> "ValidationError"]
         ELSE [raises |-> FALSE, value |-> model_validate(c.object)]

(* ------------------------------------- __handle_coordination_request *)
\* select_gateway with an unknown agent name routed to the general-purpose agent
select_gateway_default(cfg, agent_name) ==
    IF agent_name = UMS
    THEN [raises |-> FALSE, gateway |-> "UMSAgentGateway",
          endpoint |-> cfg.ums_agent_endpoint]
    ELSE [raises |-> FALSE, gateway |-> "GPAGateway", endpoint |-> cfg.endpoint]

\* the gateway constructed for an agent name, or ValueError("Unknown Agent")
select_gateway(cfg, agent_name) ==
    IF agent_name = GPA
    THEN [raises |-> FALSE, gateway |-> "GPAGateway", endpoint |-> cfg.endpoint]
    ELSE IF agent_name = UMS
         THEN [raises |-> FALSE, gateway |-> "UMSAgentGateway",
               endpoint |-> cfg.ums_agent_endpoint]
         ELSE [raises |-> TRUE, exception |-> "ValueError"]

(* ---------------------------------------------------- __final_response *)
\* the augmented prompt written over the last history entry
updated_user_request(agent_content, last_content) ==
    <<"## CONTEXT:\n ">> \o Str(agent_content)
      \o <<"\n ---\n ## USER_REQUEST: \n ">> \o Str(last_content)

\* messages[-1]["content"] = updated_user_request
rewrite_last(messages, agent_msg) ==
    [messages EXCEPT ![Len(messages)].content =
        updated_user_request(agent_msg.content, @)]

\* entry_alias with every entry being the request message object itself
entry_alias_shared(msgs, i) == i - 1

\* the request message whose storage entry i of the history shares, 0 when the
\* entry is a dict of its own: the system prompt entry and the stripped user
\* entry are dict literals, every other entry is the new dict m.dict() returns
entry_alias(msgs, i) == 0

\* request.messages after messages[-1]["content"] = updated_user_request: the
\* assignment reaches a request message only through an aliased entry
request_after_rewrite(msgs, agent_msg) ==
    LET history == prepare_messages(msgs, FINAL_RESPONSE_SYSTEM_PROMPT)
        n == Len(history)
        a == entry_alias(msgs, n)
    IN  IF a = 0
        THEN msgs
        ELSE [msgs EXCEPT ![a].content =
                 updated_user_request(agent_msg.content, history[n].content)]

\* the completion request of the synthesis call
synthesis_call(cfg, msgs, agent_msg) ==
    [deployment_name |-> cfg.deployment_name,
     messages |-> rewrite_last(prepare_messages(msgs, FINAL_RESPONSE_SYSTEM_PROMPT),
                               agent_msg),
     stream |-> TRUE,
     response_format |-> "none"]

\* delta_content without the test that the content is non-empty
delta_content_keep_empty(chunk) ==
    IF Len(chunk.choices) > 0
         /\ ~chunk.choices[1].delta.isNone
         /\ chunk.choices[1].delta.content # None
    THEN chunk.choices[1].delta.content
    ELSE None

\* the fragment one chunk contributes, None when the chunk is skipped
delta_content(chunk) ==
    IF Len(chunk.choices) > 0
         /\ ~chunk.choices[1].delta.isNone
         /\ TruthyStr(chunk.choices[1].delta.content)
    THEN chunk.choices[1].delta.content
    ELSE None

\* final_message with the agent's custom_content dropped
final_message_no_custom(acc, agent_msg) ==
    [role |-> ASSISTANT, content |-> Str(acc), custom_content |-> None]

\* the Message __final_response returns
final_message(acc, agent_msg) ==
    [role |-> ASSISTANT, content |-> Str(acc),
     custom_content |-> agent_msg.custom_content]

(* ------------------------------------------------------ chat_completion *)
\* except Exception as e: ... raise e
chat_completion_except(e) == e

\* MASCoordinator(DIAL_ENDPOINT, DEPLOYMENT_NAME, UMS_AGENT_ENDPOINT)
MASCoordinator ==
    [endpoint |-> DIAL_ENDPOINT, deployment_name |-> DEPLOYMENT_NAME,
     ums_agent_endpoint |-> UMS_AGENT_ENDPOINT]

Init ==
    /\ pc = "Start"
    /\ config = MASCoordinator
    /\ request \in Conversations
    /\ stages = <<>>
    /\ llmCalls = <<>>
    /\ agentCalls = <<>>
    /\ coordination_request = Null
    /\ agent_message = Null
    /\ decision_content = Null
    /\ downstream = [decision |-> "none", agent |-> "none", synthesis |-> "none",
                     progress |-> "ok"]
    /\ received = <<>>
    /\ output = <<>>
    /\ content = <<>>
    /\ result = Null
    /\ error = NoError
    /\ raised = NoError
    /\ current = 1
    /\ suspended = Null

(* --------------------------------------------------------------- actions *)
\* an exception leaves handle_request and chat_completion
Fail(e) ==
    /\ pc' = "Failed"
    /\ error' = e
    /\ raised' = chat_completion_except(e)
    /\ UNCHANGED <<untouched, request, result>>

\* handle_request up to the await of the decision call
RequestDecision ==
    /\ pc = "Start"
    /\ stages' = open_stage(stages, <<"Coordination Request">>)
    /\ llmCalls' = Append(llmCalls, decision_call(config, request))
    /\ downstream' = [downstream EXCEPT !.decision = "pending"]
    /\ pc' = "DecisionRequested"
    /\ UNCHANGED <<untouched, request, agentCalls, coordination_request, agent_message,
                   decision_content, received, output, content, result, error, raised>>

\* DecisionCallRaises with the call awaited again after each transport error
DecisionCallRaises_Retry ==
    /\ pc = "DecisionRequested"
    /\ downstream' = [downstream EXCEPT
                          !.decision = IF @ = "pending" THEN "raised" ELSE "pending"]
    /\ UNCHANGED <<pc, untouched, request, stages, llmCalls, agentCalls,
                   coordination_request, agent_message, decision_content, received,
                   output, content, result, error, raised>>

\* the decision call raises
DecisionCallRaises ==
    /\ pc = "DecisionRequested"
    /\ downstream' = [downstream EXCEPT !.decision = "raised"]
    /\ Fail("TransportError")
    /\ UNCHANGED <<stages, llmCalls, agentCalls, coordination_request, agent_message,
                   decision_content, received, output, content>>

\* the decision call returns content c: parse, validate, report, close the stage
DecisionCallReturns(c) ==
    /\ pc = "DecisionRequested"
    /\ downstream' = [downstream EXCEPT !.decision = "returned"]
    /\ decision_content' = c
    /\ LET parsed == parse_decision(c) IN
         IF parsed.raises
         THEN /\ Fail(parsed.exception)
              /\ UNCHANGED <<stages, coordination_request>>
         ELSE /\ coordination_request' = parsed.value
              /\ stages' = close_stage_safely(
                     append_content(stages, Len(stages),
                                    decision_stage_content(parsed.value)),
                     Len(stages))
              /\ pc' = "DecisionReceived"
              /\ UNCHANGED <<untouched, request, result, error, raised>>
    /\ UNCHANGED <<llmCalls, agentCalls, agent_message, received, output, content>>

\* open the agent's stage, select the gateway and call it
DispatchAgent ==
    /\ pc = "DecisionReceived"
    /\ LET stgs == open_stage(stages,
                       <<"Call ", coordination_request.agent_name, " Agent">>)
           gw == select_gateway(config, coordination_request.agent_name)
       IN /\ stages' = stgs
          /\ IF gw.raises
             THEN /\ Fail(gw.exception)
                  /\ UNCHANGED <<agentCalls, downstream>>
             ELSE /\ agentCalls' = Append(agentCalls,
                         [gateway |-> gw.gateway,
                          endpoint |-> gw.endpoint,
                          request |-> request,
                          stage |-> Len(stgs),
                          additional_instructions |->
                              coordination_request.additional_instructions])
                  /\ downstream' = [downstream EXCEPT !.agent = "pending"]
                  /\ pc' = "AgentDispatched"
                  /\ UNCHANGED <<untouched, request, result, error, raised>>
    /\ UNCHANGED <<llmCalls, coordination_request, agent_message, decision_content,
                   received, output, content>>

\* AgentReturns without the agent's stage closed
AgentReturns_NoClose(m) ==
    /\ pc = "AgentDispatched"
    /\ agent_message' = m
    /\ downstream' = [downstream EXCEPT !.agent = "returned"]
    /\ pc' = "AgentResponded"
    /\ UNCHANGED <<untouched, request, stages, llmCalls, agentCalls, coordination_request,
                   decision_content, received, output, content, result, error, raised>>

\* the gateway returns message m
AgentReturns(m) ==
    /\ pc = "AgentDispatched"
    /\ agent_message' = m
    /\ stages' = close_stage_safely(stages, Len(stages))
    /\ downstream' = [downstream EXCEPT !.agent = "returned"]
    /\ pc' = "AgentResponded"
    /\ UNCHANGED <<untouched, request, llmCalls, agentCalls, coordination_request,
                   decision_content, received, output, content, result, error, raised>>

\* AgentRaises with the same gateway called again
AgentRaises_Retry ==
    /\ pc = "AgentDispatched"
    /\ Len(agentCalls) < 2
    /\ agentCalls' = Append(agentCalls, agentCalls[Len(agentCalls)])
    /\ UNCHANGED <<pc, untouched, request, stages, llmCalls, coordination_request,
                   agent_message, decision_content, downstream, received, output,
                   content, result, error, raised>>

\* AgentRaises with the other gateway tried as a fallback
AgentRaises_Fallback ==
    /\ pc = "AgentDispatched"
    /\ Len(agentCalls) < 2
    /\ downstream.agent = "pending"
    /\ downstream' = [downstream EXCEPT !.agent = "raised"]
    /\ agentCalls' = Append(agentCalls,
           [agentCalls[1] EXCEPT !.gateway =
               IF @ = "GPAGateway" THEN "UMSAgentGateway" ELSE "GPAGateway"])
    /\ UNCHANGED <<pc, untouched, request, stages, llmCalls, coordination_request,
                   agent_message, decision_content, received, output, content, result,
                   error, raised>>

\* the gateway raises
AgentRaises ==
    /\ pc = "AgentDispatched"
    /\ downstream' = [downstream EXCEPT !.agent = "raised"]
    /\ Fail("AgentError")
    /\ UNCHANGED <<stages, llmCalls, agentCalls, coordination_request, agent_message,
                   decision_content, received, output, content>>

\* __final_response up to the await of the synthesis call
RequestSynthesis ==
    /\ pc = "AgentResponded"
    /\ LET messages == prepare_messages(request, FINAL_RESPONSE_SYSTEM_PROMPT) IN
         IF "content" \notin DOMAIN messages[Len(messages)]
         THEN /\ Fail("KeyError")
              /\ UNCHANGED <<llmCalls, downstream>>
         ELSE /\ llmCalls' = Append(llmCalls,
                                    synthesis_call(config, request, agent_message))
              /\ request' = request_after_rewrite(request, agent_message)
              /\ downstream' = [downstream EXCEPT !.synthesis = "streaming"]
              /\ pc' = "SynthesisStreaming"
              /\ UNCHANGED <<untouched, result, error, raised>>
    /\ UNCHANGED <<stages, agentCalls, coordination_request, agent_message,
                   decision_content, received, output, content>>

\* one chunk of the stream arrives
StreamChunk(chunk) ==
    /\ pc = "SynthesisStreaming"
    /\ Len(received) < MaxChunks
    /\ received' = Append(received, chunk)
    /\ LET c == delta_content(chunk) IN
         IF c # None
         THEN /\ output' = Append(output, c)
              /\ content' = content \o c
         ELSE UNCHANGED <<output, content>>
    /\ UNCHANGED <<pc, untouched, request, stages, llmCalls, agentCalls,
                   coordination_request, agent_message, decision_content, downstream,
                   result, error, raised>>

\* the stream ends: the final message is returned
StreamEnds ==
    /\ pc = "SynthesisStreaming"
    /\ result' = final_message(content, agent_message)
    /\ downstream' = [downstream EXCEPT !.synthesis = "ended"]
    /\ pc' = "Done"
    /\ UNCHANGED <<untouched, request, stages, llmCalls, agentCalls, coordination_request,
                   agent_message, decision_content, received, output, content, error,
                   raised>>

\* StreamRaises with the text accumulated so far returned as the final message
StreamRaises_Truncated ==
    /\ pc = "SynthesisStreaming"
    /\ downstream' = [downstream EXCEPT !.synthesis = "raised"]
    /\ result' = final_message(content, agent_message)
    /\ pc' = "Done"
    /\ UNCHANGED <<untouched, request, stages, llmCalls, agentCalls, coordination_request,
                   agent_message, decision_content, received, output, content, error,
                   raised>>

\* StreamRaises with the synthesis phase started over
StreamRaises_Restart ==
    /\ pc = "SynthesisStreaming"
    /\ Len(llmCalls) < 3
    /\ pc' = "AgentResponded"
    /\ UNCHANGED <<untouched, request, stages, llmCalls, agentCalls, coordination_request,
                   agent_message, decision_content, downstream, received, output,
                   content, result, error, raised>>

\* the synthesis call or the iteration over its stream raises
StreamRaises ==
    /\ pc = "SynthesisStreaming"
    /\ downstream' = [downstream EXCEPT !.synthesis = "raised"]
    /\ Fail("StreamError")
    /\ UNCHANGED <<stages, llmCalls, agentCalls, coordination_request, agent_message,
                   decision_content, received, output, content>>

Next ==
    \/ RequestDecision
    \/ DecisionCallRaises
    \/ \E c \in DecisionContents : DecisionCallReturns(c)
    \/ DispatchAgent
    \/ \E m \in AgentMessages : AgentReturns(m)
    \/ AgentRaises
    \/ RequestSynthesis
    \/ \E chunk \in Chunks : StreamChunk(chunk)
    \/ StreamEnds
    \/ StreamRaises

Spec == Init /\ [][Next]_vars

\* every awaited call returns or raises and the stream ends or raises: a request
\* that can take a step eventually takes one
SpecLive == Init /\ [][Next]_vars /\ WF_vars(Next)

(* ------------------------- __handle_coordination_request on its own *)
\* CoordinationRequest objects handed to __handle_coordination_request, those
\* with an agent name outside AgentName included
CoordinationRequests ==
    [agent_name : AgentName \cup {"OTHER"}, additional_instructions : {<<>>, <<"I">>}]

\* handle_request at the call of __handle_coordination_request
InitDispatch ==
    /\ pc = "DecisionReceived"
    /\ config = MASCoordinator
    /\ request \in Conversations
    /\ coordination_request \in CoordinationRequests
    /\ stages = close_stage_safely(
           append_content(open_stage(<<>>, <<"Coordination Request">>), 1,
                          decision_stage_content(coordination_request)), 1)
    /\ llmCalls = <<decision_call(config, request)>>
    /\ agentCalls = <<>>
    /\ agent_message = Null
    /\ decision_content = [json |-> TRUE, object |-> coordination_request]
    /\ downstream = [decision |-> "returned", agent |-> "none", synthesis |-> "none",
                     progress |-> "ok"]
    /\ received = <<>>
    /\ output = <<>>
    /\ content = <<>>
    /\ result = Null
    /\ error = NoError
    /\ raised = NoError
    /\ current = 1
    /\ suspended = Null

NextDispatch ==
    \/ DispatchAgent
    \/ \E m \in AgentMessages : AgentReturns(m)
    \/ AgentRaises

SpecDispatch == InitDispatch /\ [][NextDispatch]_vars

(* ------------------------------ handle_request with failing stage operations *)
\* StageProcessor.open_stage(choice, "Coordination Request") raises
OpenStageRaises ==
    /\ pc = "Start"
    /\ downstream' = [downstream EXCEPT !.progress = "raised"]
    /\ Fail("StageError")
    /\ UNCHANGED <<stages, llmCalls, agentCalls, coordination_request, agent_message,
                   decision_content, received, output, content>>

\* the decision is parsed and validated, then stage.append_content raises
AppendContentRaises(c) ==
    /\ pc = "DecisionRequested"
    /\ ~parse_decision(c).raises
    /\ decision_content' = c
    /\ coordination_request' = parse_decision(c).value
    /\ downstream' = [downstream EXCEPT !.decision = "returned", !.progress = "raised"]
    /\ Fail("StageError")
    /\ UNCHANGED <<stages, llmCalls, agentCalls, agent_message, received, output,
                   content>>

\* the decision is reported, then the close inside close_stage_safely fails and
\* is swallowed: the stage stays open and handle_request goes on
DecisionCallReturnsCloseFails(c) ==
    /\ pc = "DecisionRequested"
    /\ ~parse_decision(c).raises
    /\ decision_content' = c
    /\ coordination_request' = parse_decision(c).value
    /\ downstream' = [downstream EXCEPT !.decision = "returned", !.progress = "raised"]
    /\ stages' = append_content(stages, Len(stages),
                                decision_stage_content(parse_decision(c).value))
    /\ pc' = "DecisionReceived"
    /\ UNCHANGED <<untouched, request, llmCalls, agentCalls, agent_message, received,
                   output, content, result, error, raised>>

\* StageProcessor.open_stage(choice, "Call ... Agent") raises
OpenAgentStageRaises ==
    /\ pc = "DecisionReceived"
    /\ downstream' = [downstream EXCEPT !.progress = "raised"]
    /\ Fail("StageError")
    /\ UNCHANGED <<stages, llmCalls, agentCalls, coordination_request, agent_message,
                   decision_content, received, output, content>>

\* the gateway returns, then the close inside close_stage_safely fails and is
\* swallowed
AgentReturnsCloseFails(m) ==
    /\ pc = "AgentDispatched"
    /\ agent_message' = m
    /\ downstream' = [downstream EXCEPT !.agent = "returned", !.progress = "raised"]
    /\ pc' = "AgentResponded"
    /\ UNCHANGED <<untouched, request, stages, llmCalls, agentCalls, coordination_request,
                   decision_content, received, output, content, result, error, raised>>

NextProgress ==
    \/ Next
    \/ OpenStageRaises
    \/ \E c \in DecisionContents : AppendContentRaises(c)
    \/ \E c \in DecisionContents : DecisionCallReturnsCloseFails(c)
    \/ OpenAgentStageRaises
    \/ \E m \in AgentMessages : AgentReturnsCloseFails(m)

SpecProgress == Init /\ [][NextProgress]_vars

(* ------------------------------------ two chat_completion coroutines *)
\* the locals of the running chat_completion coroutine: its request, its
\* choice, its MASCoordinator and the locals of handle_request
Context ==
    [pc |-> pc, config |-> config, request |-> request, stages |-> stages,
     llmCalls |-> llmCalls, agentCalls |-> agentCalls,
     coordination_request |-> coordination_request, agent_message |-> agent_message,
     decision_content |-> decision_content, downstream |-> downstream,
     received |-> received, output |-> output, content |-> content,
     result |-> result, error |-> error, raised |-> raised]

\* the locals of a chat_completion coroutine that has not run yet
FreshContext(req) ==
    [pc |-> "Start", config |-> MASCoordinator, request |-> req, stages |-> <<>>,
     llmCalls |-> <<>>, agentCalls |-> <<>>, coordination_request |-> Null,
     agent_message |-> Null, decision_content |-> Null,
     downstream |-> [decision |-> "none", agent |-> "none", synthesis |-> "none",
                     progress |-> "ok"],
     received |-> <<>>, output |-> <<>>, content |-> <<>>, result |-> Null,
     error |-> NoError, raised |-> NoError]

\* inputs of the two concurrent requests: one user message each, a decision
\* that is not JSON or names an agent, an agent message, and chunks with no
\* choices or with a fragment
ConcurrentConversations ==
    {c \in Conversations : Len(c) = 1 /\ c[1].role = USER /\ c[1].content # None}

ConcurrentDecisions ==
    {[json |-> FALSE]}
      \cup {[json |-> TRUE,
             object |-> [agent_name |-> a, additional_instructions |-> <<"I">>]] :
                a \in AgentName}

ConcurrentAgentMessages == {m \in AgentMessages : m.custom_content # None}

ConcurrentChunks == {c \in Chunks : c.choices = <<>> \/ delta_content(c) # None}

\* two requests arrive; the event loop starts one of them
InitConcurrent ==
    /\ pc = "Start"
    /\ config = MASCoordinator
    /\ request \in ConcurrentConversations
    /\ stages = <<>>
    /\ llmCalls = <<>>
    /\ agentCalls = <<>>
    /\ coordination_request = Null
    /\ agent_message = Null
    /\ decision_content = Null
    /\ downstream = [decision |-> "none", agent |-> "none", synthesis |-> "none",
                     progress |-> "ok"]
    /\ received = <<>>
    /\ output = <<>>
    /\ content = <<>>
    /\ result = Null
    /\ error = NoError
    /\ raised = NoError
    /\ current = 1
    /\ suspended \in {FreshContext(req) : req \in ConcurrentConversations}

\* a coroutine gives way only where it has not begun, awaits a downstream call
\* or has ended
Suspendable(p) ==
    p \in {"Start", "DecisionRequested", "AgentDispatched", "SynthesisStreaming",
           "Done", "Failed"}

\* Switch with the accumulator kept in one place for both coroutines
Switch_SharedAccumulator ==
    /\ suspended # Null
    /\ Suspendable(pc)
    /\ suspended.pc \notin {"Done", "Failed"}
    /\ current' = 3 - current
    /\ suspended' = Context
    /\ pc' = suspended.pc
    /\ config' = suspended.config
    /\ request' = suspended.request
    /\ stages' = suspended.stages
    /\ llmCalls' = suspended.llmCalls
    /\ agentCalls' = suspended.agentCalls
    /\ coordination_request' = suspended.coordination_request
    /\ agent_message' = suspended.agent_message
    /\ decision_content' = suspended.decision_content
    /\ downstream' = suspended.downstream
    /\ received' = suspended.received
    /\ output' = suspended.output
    /\ content' = content
    /\ result' = suspended.result
    /\ error' = suspended.error
    /\ raised' = suspended.raised

\* the event loop suspends the running coroutine at an await and resumes the
\* other one: each coroutine keeps its own locals
Switch ==
    /\ suspended # Null
    /\ Suspendable(pc)
    /\ suspended.pc \notin {"Done", "Failed"}
    /\ current' = 3 - current
    /\ suspended' = Context
    /\ pc' = suspended.pc
    /\ config' = suspended.config
    /\ request' = suspended.request
    /\ stages' = suspended.stages
    /\ llmCalls' = suspended.llmCalls
    /\ agentCalls' = suspended.agentCalls
    /\ coordination_request' = suspended.coordination_request
    /\ agent_message' = suspended.agent_message
    /\ decision_content' = suspended.decision_content
    /\ downstream' = suspended.downstream
    /\ received' = suspended.received
    /\ output' = suspended.output
    /\ content' = suspended.content
    /\ result' = suspended.result
    /\ error' = suspended.error
    /\ raised' = suspended.raised

NextConcurrent ==
    \/ RequestDecision
    \/ DecisionCallRaises
    \/ \E c \in ConcurrentDecisions : DecisionCallReturns(c)
    \/ DispatchAgent
    \/ \E m \in ConcurrentAgentMessages : AgentReturns(m)
    \/ AgentRaises
    \/ RequestSynthesis
    \/ \E chunk \in ConcurrentChunks : StreamChunk(chunk)
    \/ StreamEnds
    \/ StreamRaises
    \/ Switch

SpecConcurrent == InitConcurrent /\ [][NextConcurrent]_vars

(* ---------------------------------------------------------------- claims *)
\* the decision calls (non-streaming) and the synthesis calls (streaming) issued
DecisionCalls == SelectSeq(llmCalls, LAMBDA c : ~c.stream)
SynthesisCalls == SelectSeq(llmCalls, LAMBDA c : c.stream)
GatewaysInvoked == {agentCalls[i].gateway : i \in 1..Len(agentCalls)}

\* C1: in every run the decision call, the agent gateway call and the synthesis
\* call are each issued at most once and at most one gateway is invoked; a run
\* that returned a final message has issued exactly one of each.
C1_CallsAtMostOnce ==
    /\ Len(DecisionCalls) <= 1
    /\ Len(agentCalls) <= 1
    /\ Len(SynthesisCalls) <= 1
    /\ Cardinality(GatewaysInvoked) <= 1
    /\ result # Null =>
         /\ Len(agentCalls) = 1
         /\ Len(DecisionCalls) = 1
         /\ Len(SynthesisCalls) = 1
         /\ Len(llmCalls) = 2

C1_Witness == pc = "Done" /\ result # Null /\ Len(llmCalls) = 2 /\ Len(agentCalls) = 1

Rank(p) ==
    CASE p = "Start" -> 0
      [] p = "DecisionRequested" -> 1
      [] p = "DecisionReceived" -> 2
      [] p = "AgentDispatched" -> 3
      [] p = "AgentResponded" -> 4
      [] p = "SynthesisStreaming" -> 5
      [] p = "Done" -> 6
      [] p = "Failed" -> 7

\* C2: the phases are strictly sequential: the phase only moves to its successor
\* in Start, DecisionRequested, DecisionReceived, AgentDispatched, AgentResponded,
\* SynthesisStreaming, Done, or to Failed; a gateway is invoked only from
\* DecisionReceived with a validated decision, and the synthesis call is issued
\* only from AgentResponded with the gateway's message received.
C2_PhasesSequential ==
    [][ /\ pc' # pc =>
             \/ pc' = "Failed" /\ pc \notin {"Done", "Failed"}
             \/ pc' # "Failed" /\ Rank(pc') = Rank(pc) + 1
        /\ agentCalls' # agentCalls =>
             /\ pc = "DecisionReceived"
             /\ downstream.decision = "returned"
             /\ coordination_request # Null
             /\ coordination_request.agent_name \in {"GPA", "UMS"}
        /\ SynthesisCalls' # SynthesisCalls =>
             /\ pc = "AgentResponded"
             /\ downstream.agent = "returned"
             /\ agent_message # Null
      ]_vars

C2_Witness == pc = "Done" /\ downstream.synthesis = "ended"

\* C3: when the selected gateway raised, no synthesis call is issued, no other
\* gateway is tried, and the error leaves handle_request and chat_completion.
C3_AgentErrorFatal ==
    downstream.agent = "raised" =>
        /\ pc = "Failed"
        /\ SynthesisCalls = <<>>
        /\ Len(agentCalls) = 1
        /\ result = Null
        /\ error = "AgentError"
        /\ raised = "AgentError"

C3_Witness == downstream.agent = "raised" /\ pc = "Failed" /\ raised = "AgentError"

\* a JSON object with both required fields and an agent name of the enumeration
WellFormedDecision(d) ==
    /\ "agent_name" \in DOMAIN d
    /\ "additional_instructions" \in DOMAIN d
    /\ d.agent_name \in {"GPA", "UMS"}

DecisionRejected ==
    \/ downstream.decision = "raised"
    \/ /\ decision_content # Null
       /\ \/ ~decision_content.json
          \/ ~WellFormedDecision(decision_content.object)

\* C4: when the decision call fails or its content is not parseable JSON, lacks a
\* required field or names an agent outside {GPA, UMS}, the request fails with no
\* decision object, no gateway invoked, no synthesis call and no default agent.
C4_BadDecisionFails ==
    DecisionRejected =>
        /\ pc = "Failed"
        /\ raised # NoError
        /\ coordination_request = Null
        /\ agentCalls = <<>>
        /\ SynthesisCalls = <<>>
        /\ result = Null

C4_Witness ==
    /\ pc = "Failed"
    /\ decision_content # Null
    /\ decision_content.json
    /\ "agent_name" \in DOMAIN decision_content.object
    /\ decision_content.object.agent_name = "OTHER"

\* C5: dispatch routes by the decision's agent name: GPA invokes exactly the
\* general-purpose gateway, UMS exactly the UMS gateway, any other name fails
\* with ValueError before a gateway is constructed or called; the gateway
\* receives the decision's additional_instructions unchanged.
C5_DispatchRouting ==
    /\ pc # "DecisionReceived" =>
         /\ coordination_request.agent_name = "GPA" =>
              /\ Len(agentCalls) = 1
              /\ agentCalls[1].gateway = "GPAGateway"
         /\ coordination_request.agent_name = "UMS" =>
              /\ Len(agentCalls) = 1
              /\ agentCalls[1].gateway = "UMSAgentGateway"
         /\ coordination_request.agent_name \notin {"GPA", "UMS"} =>
              /\ pc = "Failed"
              /\ error = "ValueError"
              /\ agentCalls = <<>>
              /\ downstream.agent = "none"
    /\ \A i \in 1..Len(agentCalls) :
         agentCalls[i].additional_instructions =
             coordination_request.additional_instructions

C5_Witness ==
    /\ pc = "AgentDispatched"
    /\ coordination_request.agent_name = "UMS"
    /\ coordination_request.additional_instructions = <<"I">>
    /\ Len(agentCalls) = 1
    /\ agentCalls[1].gateway = "UMSAgentGateway"

IsPrefix(a, b) == Len(a) <= Len(b) /\ SubSeq(b, 1, Len(a)) = a

SomeCallRaised ==
    \/ downstream.decision = "raised"
    \/ downstream.agent = "raised"
    \/ downstream.synthesis = "raised"

\* C6: a request ends either with a final message, returned only after the
\* synthesis stream ended normally, or with an error raised to the hosting
\* layer, never both; after an error in any phase (a transport error in the
\* middle of the stream included) no final message is returned, and fragments
\* already appended to the output are never retracted.
C6_CompleteOrError ==
    /\ [](/\ (pc = "Done") = (result # Null)
          /\ (pc = "Failed") = (raised # NoError)
          /\ ~(result # Null /\ raised # NoError)
          /\ result # Null => downstream.synthesis = "ended" /\ error = NoError
          /\ (SomeCallRaised \/ error # NoError) =>
                 /\ result = Null
                 /\ pc = "Failed"
                 /\ raised = error
                 /\ raised # NoError)
    /\ [][ /\ IsPrefix(output, output')
           /\ result' # result => pc = "SynthesisStreaming" /\ pc' = "Done"
         ]_vars

C6_Witness ==
    /\ pc = "Failed"
    /\ downstream.synthesis = "raised"
    /\ output # <<>>
    /\ result = Null
    /\ raised = "StreamError"

\* C7: no terminal state (Done or Failed) has an open progress segment: a
\* segment open when the decision call, its validation or the gateway raises is
\* still closed.
C7_SegmentsClosedAtEnd ==
    pc \in {"Done", "Failed"} =>
        \A i \in 1..Len(stages) : stages[i].status = "closed"

\* a chunk that carries a non-empty content fragment
CarriesFragment(chunk) ==
    /\ chunk.choices # <<>>
    /\ ~chunk.choices[1].delta.isNone
    /\ chunk.choices[1].delta.content \notin {None, <<>>}

\* the non-empty content fragments received so far, in arrival order
ReceivedFragments ==
    LET kept == SelectSeq(received, CarriesFragment)
    IN  [i \in 1..Len(kept) |-> kept[i].choices[1].delta.content]

RECURSIVE Concat(_)
Concat(fragments) ==
    IF fragments = <<>> THEN <<>> ELSE Head(fragments) \o Concat(Tail(fragments))

\* C8: the fragments appended to the output are exactly the non-empty content
\* fragments received, in arrival order, each once; the text emitted always
\* equals the accumulator; the returned message's content is the concatenation
\* of the received fragments (fragments "Hel", "lo" give "Hello"); chunks with no
\* choices or empty delta content contribute nothing.
C8_FragmentsInOrder ==
    /\ output = ReceivedFragments
    /\ Concat(output) = content
    /\ result # Null =>
         /\ result.content = Concat(ReceivedFragments)
         /\ ReceivedFragments = << <<"H", "e", "l">>, <<"l", "o">> >> =>
                result.content = <<"H", "e", "l", "l", "o">>

C8_Witness ==
    /\ result # Null
    /\ ReceivedFragments = << <<"H", "e", "l">>, <<"l", "o">> >>
    /\ result.content = <<"H", "e", "l", "l", "o">>

\* C9: a returned final message has role assistant and the custom_content of the
\* message the gateway returned, absent when that is absent.
C9_CustomContentCarried ==
    result # Null =>
        /\ downstream.agent = "returned"
        /\ result.role = "assistant"
        /\ result.custom_content = agent_message.custom_content

C9_Witness ==
    /\ result # Null
    /\ agent_message.custom_content = <<"id=42">>
    /\ result.custom_content = <<"id=42">>

\* C10: the message list of the synthesis call is the history built with the
\* final-response system prompt, except that the last entry's content is a
\* CONTEXT section holding the agent's content followed by a USER_REQUEST section
\* holding the entry's original content; every other entry, the system prompt at
\* index 0 included, is unchanged, and the call is streaming.
C10_SynthesisPrompt ==
    Len(llmCalls) = 2 =>
        LET call == llmCalls[2]
            sent == call.messages
            history == prepare_messages(request, FINAL_RESPONSE_SYSTEM_PROMPT)
            n == Len(history)
        IN  /\ call.stream
            /\ Len(sent) = n
            /\ \A i \in 1..(n - 1) : sent[i] = history[i]
            /\ sent[1] = history[1]
            /\ DOMAIN sent[n] = DOMAIN history[n]
            /\ \A k \in DOMAIN history[n] \ {"content"} : sent[n][k] = history[n][k]
            /\ sent[n].content =
                   <<"## CONTEXT:\n ">> \o agent_message.content
                     \o <<"\n ---\n ## USER_REQUEST: \n ">> \o history[n].content

\* C11: for every conversation (the empty one included) and every system
\* prompt, the history has one entry more than the conversation, its first entry
\* has role system and the given prompt as content, and entry i+1 has the role of
\* input message i, in the original order.
C11_HistoryShape ==
    /\ \A p \in {COORDINATION_REQUEST_SYSTEM_PROMPT, FINAL_RESPONSE_SYSTEM_PROMPT} :
         LET history == prepare_messages(request, p)
         IN  /\ Len(history) = Len(request) + 1
             /\ history[1].role = "system"
             /\ history[1].content = p
             /\ \A i \in 1..Len(request) : history[i + 1].role = request[i].role
    /\ Len(llmCalls) >= 1 =>
         LET sent == llmCalls[1].messages
         IN  /\ Len(sent) = Len(request) + 1
             /\ sent[1] = [role |-> "system",
                           content |-> COORDINATION_REQUEST_SYSTEM_PROMPT]
             /\ \A i \in 1..Len(request) : sent[i + 1].role = request[i].role

C11_Witness ==
    /\ Len(llmCalls) >= 1
    /\ Len(request) = 2
    /\ request[1].role = "user"
    /\ request[2].role = "assistant"
    /\ Len(llmCalls[1].messages) = 3

\* C12: every input message with role user and a custom_content is emitted as an
\* entry holding only role user and the message's own content, without the
\* custom_content.
C12_UserCustomContentStripped ==
    Len(llmCalls) >= 1 =>
        \A i \in 1..Len(request) :
            (request[i].role = "user" /\ request[i].custom_content # None) =>
                llmCalls[1].messages[i + 1] =
                    [role |-> "user", content |-> request[i].content]

\* C13: no entry of a message list sent to the decision call or to the synthesis
\* call carries a custom_content field, whatever the role of its message.
C13_NoCustomContentInPrompt ==
    \A c \in 1..Len(llmCalls) :
        \A i \in 1..Len(llmCalls[c].messages) :
            "custom_content" \notin DOMAIN llmCalls[c].messages[i]

\* C13 as amended: an entry carries a custom_content field exactly when it comes
\* from an assistant or system message that has one; no entry that comes from a
\* user message, and not the system prompt entry, carries it.
C13_UserCustomContentNeverSent ==
    \A c \in 1..Len(llmCalls) :
        /\ "custom_content" \notin DOMAIN llmCalls[c].messages[1]
        /\ \A i \in 1..Len(request) :
             ("custom_content" \in DOMAIN llmCalls[c].messages[i + 1])
                 = (request[i].role # "user" /\ request[i].custom_content # None)

C13_Witness ==
    /\ Len(llmCalls) = 2
    /\ Len(request) = 2
    /\ request[1].role = "assistant"
    /\ request[1].custom_content # None
    /\ request[2].role = "user"
    /\ request[2].custom_content # None
    /\ "custom_content" \in DOMAIN llmCalls[2].messages[2]
    /\ "custom_content" \notin DOMAIN llmCalls[2].messages[3]

\* C14: the last element of the history is the most recent user entry, so the
\* entry the synthesis rewrites always has role user: never the system prompt
\* (empty conversation), never an assistant entry.
C14_LastEntryIsUser ==
    LET history == prepare_messages(request, FINAL_RESPONSE_SYSTEM_PROMPT)
    IN  /\ pc \in {"AgentResponded", "SynthesisStreaming", "Done"} =>
              history[Len(history)].role = "user"
        /\ Len(llmCalls) = 2 =>
              llmCalls[2].messages[Len(llmCalls[2].messages)].role = "user"

OpenStages(stgs) == {i \in 1..Len(stgs) : stgs[i].status = "open"}

\* C15: the two segments are opened and closed in strict sequence:
\* "Coordination Request" is opened before the decision call and closed, with the
\* serialized decision appended, before "Call <AgentName> Agent" is opened; that
\* one is opened only with a validated decision and closed before the synthesis
\* call; at most one segment is open at a time, each is opened and closed at
\* most once.
C15_SegmentsInSequence ==
    /\ [](/\ Len(stages) <= 2
          /\ Cardinality(OpenStages(stages)) <= 1
          /\ Len(llmCalls) >= 1 =>
                 /\ Len(stages) >= 1
                 /\ stages[1].name = <<"Coordination Request">>
          /\ Len(stages) = 2 =>
                 /\ stages[1].status = "closed"
                 /\ coordination_request # Null
                 /\ coordination_request.agent_name \in {"GPA", "UMS"}
                 /\ stages[1].content = decision_stage_content(coordination_request)
                 /\ stages[2].name =
                        <<"Call ", coordination_request.agent_name, " Agent">>
          /\ Len(llmCalls) = 2 => Len(stages) = 2 /\ OpenStages(stages) = {})
    /\ [][ /\ Len(stages') >= Len(stages)
           /\ Len(stages') > Len(stages) =>
                  /\ Len(stages') = Len(stages) + 1
                  /\ OpenStages(stages) = {}
                  /\ stages'[Len(stages')].status = "open"
           /\ \A i \in 1..Len(stages) :
                  /\ stages'[i].name = stages[i].name
                  /\ stages[i].status = "closed" => stages'[i] = stages[i]
           /\ (Len(llmCalls) = 0 /\ Len(llmCalls') = 1) =>
                  OpenStages(stages') = {1}
         ]_vars

C15_Witness ==
    /\ pc = "SynthesisStreaming"
    /\ Len(stages) = 2
    /\ OpenStages(stages) = {}
    /\ stages[1].content # <<>>

\* C17: a failing Progress Reporter operation (opening a segment, appending the
\* serialized decision, closing a segment) never fails the request.
C17_ProgressNeverGates ==
    downstream.progress = "raised" => ~(pc = "Failed" /\ error = "StageError")

\* C18: building the history and rewriting its last entry in place leave the
\* request's conversation (role, content, custom_content of every message)
\* unchanged: the gateway is handed the original conversation and both history
\* builds read the same input.
C18_RequestUntouched ==
    /\ [][request' = request]_vars
    /\ [](/\ \A i \in 1..Len(agentCalls) : agentCalls[i].request = request
          /\ Len(llmCalls) >= 1 =>
                 llmCalls[1].messages =
                     prepare_messages(request, COORDINATION_REQUEST_SYSTEM_PROMPT)
          /\ Len(llmCalls) = 2 =>
                 llmCalls[2].messages =
                     rewrite_last(
                         prepare_messages(request, FINAL_RESPONSE_SYSTEM_PROMPT),
                         agent_message))

C18_Witness ==
    /\ Len(llmCalls) = 2
    /\ Len(request) = 2
    /\ request[2] = [role |-> "user", content |-> <<"Q">>, custom_content |-> None]
    /\ llmCalls[2].messages[3].content # <<"Q">>

\* the non-empty content fragments among chunks, in arrival order
Fragments(chunks) ==
    LET kept == SelectSeq(chunks, CarriesFragment)
    IN  [i \in 1..Len(kept) |-> kept[i].choices[1].delta.content]

\* what made a request fail, read from its own locals only
OwnFailure(c) ==
    \/ c.downstream.decision = "raised"
    \/ c.downstream.agent = "raised"
    \/ c.downstream.synthesis = "raised"
    \/ c.decision_content # Null /\ parse_decision(c.decision_content).raises

\* decision, selected agent, fragment sequence, final message and failure
\* outcome of a request as functions of its own conversation and of what its
\* own downstream calls returned
OwnOutcome(c) ==
    /\ c.config = MASCoordinator
    /\ c.request \in ConcurrentConversations
    /\ c.llmCalls # <<>> => c.llmCalls[1] = decision_call(c.config, c.request)
    /\ c.coordination_request # Null =>
          /\ ~parse_decision(c.decision_content).raises
          /\ c.coordination_request = parse_decision(c.decision_content).value
    /\ \A i \in 1..Len(c.agentCalls) :
          LET gw == select_gateway(c.config, c.coordination_request.agent_name)
          IN  /\ c.agentCalls[i].gateway = gw.gateway
              /\ c.agentCalls[i].endpoint = gw.endpoint
              /\ c.agentCalls[i].request = c.request
              /\ c.agentCalls[i].additional_instructions =
                     c.coordination_request.additional_instructions
    /\ Len(c.llmCalls) > 1 =>
          c.llmCalls[2] = synthesis_call(c.config, c.request, c.agent_message)
    /\ c.output = Fragments(c.received)
    /\ c.content = Concat(c.output)
    /\ c.result # Null =>
          c.result = final_message(Concat(Fragments(c.received)), c.agent_message)
    /\ c.pc = "Done" <=> c.result # Null
    /\ c.pc = "Failed" <=> c.raised # NoError
    /\ c.pc = "Failed" <=> OwnFailure(c)

\* C16: two requests handled concurrently are independent: each one's decision,
\* selected agent, fragment sequence, final message and failure outcome are
\* determined by its own conversation and its own downstream responses, a step
\* of one request (a failure included) leaves the other's state as it was, and
\* the coordinator's configuration is never written.
C16_ConcurrentIndependent ==
    /\ [](OwnOutcome(Context) /\ OwnOutcome(suspended))
    /\ [][/\ config' = MASCoordinator
          /\ suspended'.config = MASCoordinator
          /\ current' = current => suspended' = suspended
          /\ current' # current => suspended' = Context /\ Context' = suspended]_vars

\* one request has failed, the other one runs and has streamed a fragment
C16_Witness ==
    /\ suspended # Null
    /\ suspended.pc = "Failed"
    /\ pc \in {"SynthesisStreaming", "Done"}
    /\ output # <<>>
    /\ current = 2

Terminal == pc \in {"Done", "Failed"}

\* C19: every request eventually reaches Done or Failed, each downstream call
\* returning or raising and the stream delivering finitely many chunks; once Done
\* or Failed, no further call, segment operation or output fragment happens.
C19_Terminates ==
    /\ <>Terminal
    /\ [][~Terminal]_vars

C19_Witness == Terminal /\ Len(received) = MaxChunks
====
